---- MODULE Spec2Model ----
(***************************************************************************)
(* Model of the recoil-profile optimization engine of Potku:               *)
(*   - the geometry model (Point, Peak, Valley, SolutionBox6,              *)
(*     SolutionPeak8) of modules/linear_optimization.py,                   *)
(*   - the spectrum alignment uniform_espe_lists of                        *)
(*     modules/general_functions.py and the scoring                        *)
(*     LinearOptimization._get_spectra_difference,                         *)
(*   - the lifecycle of LinearOptimization.start_optimization.             *)
(* Three specifications share the variables: SpecGeom, SpecAlign, SpecOpt. *)
(***************************************************************************)
EXTENDS Integers, Sequences, FiniteSets, TLC

VARIABLES
    \* geometry model
    shape,      \* "SolutionBox6" | "SolutionPeak8" | "none"
    points,     \* the solution's point list: sequence of [x, y]
    before,     \* the point list before the last call
    calls,      \* the calls made so far: sequence of [op, kind, idx, arg, ret]
    \* spectrum comparator
    espe,       \* the caller's two spectrum lists <<first, second>>, as they are now
    given,      \* the two lists as the caller built them
    prev,       \* the two lists before the last call of uniform_espe_lists
    width,      \* channel_width, in ticks
    ncalls,     \* calls of uniform_espe_lists made so far
    score,      \* outcome of _get_spectra_difference on the two lists
    \* linear optimizer
    cfg,        \* the constructor's and the caller's arguments
    at_call,    \* the element simulation's optimization_recoils and
                \* optimized_fluence when start_optimization was called
    pc,         \* where start_optimization is
    exc,        \* the exception that left start_optimization, or "none"
    optimization_recoils,   \* element_simulation.optimization_recoils
    optimized_fluence,      \* element_simulation.optimized_fluence
    initial_solution,       \* _prepare_optimization's local initial_solution
    solution,               \* self.solution
    measured_espe,          \* self.measured_espe
    window,     \* index of the sweep's next window
    evaluated,  \* the last evaluate_solution call and its outcome
    visited,    \* the windows whose candidate was handed to
                \* evaluate_solution, in the order of the calls
    token,      \* whether the cancellation token is set
    children,   \* child simulation processes still running
    log,        \* calls of _prepare_optimization, simulator invocations,
                \* clean_up calls, reports, in order
    \* measurement collection
    measurements,   \* Measurements.measurements: tab id -> measurement_file
    project_files,  \* the file names present in the project directory
    mcalls,         \* the calls made on the collection, with their results
    \* histogram
    hist_args,  \* the arguments of hist: [data, width, col]
    hist_ret    \* what hist did: <<>> before the call

geomVars == <<shape, points, before, calls>>
alignVars == <<espe, given, prev, width, ncalls, score>>
optVars == <<cfg, at_call, pc, exc, optimization_recoils, optimized_fluence,
             initial_solution, solution, measured_espe, window, evaluated,
             visited, token, children, log>>
measVars == <<measurements, project_files, mcalls>>
histVars == <<hist_args, hist_ret>>
vars == <<shape, points, before, calls, espe, given, prev, width, ncalls, score,
          cfg, at_call, pc, exc, optimization_recoils, optimized_fluence,
          initial_solution, solution, measured_espe, window, evaluated,
          visited, token, children, log,
          measurements, project_files, mcalls, hist_args, hist_ret>>

(***************************************************************************)
(* Bounds.                                                                 *)
(***************************************************************************)
\* largest x of an initial point, in whole depth units
MaxX == 2
\* largest |amount| of a move, in whole units
MaxAmt == 2
\* number of move/set calls in one behaviour
MaxOps == 2

(***************************************************************************)
(* Coordinates are Python floats; the model keeps them as exact integers   *)
(* in units of 1/Unit.  Every set_x / set_y halves a sum of two            *)
(* coordinates once (Peak.center, Valley.center), so with at most MaxOps   *)
(* calls and inputs that are multiples of Unit every division is exact.    *)
(***************************************************************************)
Unit == 2 ^ MaxOps

\* Python's None, as a point reference
None == 0

\* y of the low plateau and of the high plateau (get_solution6: min_y, max_y)
LowY == 0
HighY == Unit

\* the parts of the state a specification does not use
IdleGeom == shape = "none" /\ points = <<>> /\ before = <<>> /\ calls = <<>>
IdleAlign ==
    /\ espe = <<>> /\ given = <<>> /\ prev = <<>>
    /\ width = 0 /\ ncalls = 0 /\ score = <<>>
IdleOpt ==
    /\ cfg = <<>> /\ at_call = <<>> /\ pc = "idle" /\ exc = "none"
    /\ optimization_recoils = <<>> /\ optimized_fluence = "None"
    /\ initial_solution = <<>> /\ solution = <<>> /\ measured_espe = <<>>
    /\ window = 0 /\ evaluated = <<>> /\ visited = <<>>
    /\ token = FALSE /\ children = 0
    /\ log = <<>>
IdleMeas == measurements = <<>> /\ project_files = {} /\ mcalls = <<>>
IdleHist == hist_args = <<>> /\ hist_ret = <<>>

(***************************************************************************)
(* Geometry model                                                          *)
(***************************************************************************)
\* Point.set_x / Point.set_y on the i-th point of the list
SetX(pts, i, x) == [pts EXCEPT ![i].x = x]
SetY(pts, i, y) == [pts EXCEPT ![i].y = y]

\* numpy.clip(v, a_min, a_max)
Clip(v, lo, hi) == IF v < lo THEN lo ELSE IF v > hi THEN hi ELSE v

\* Peak._move_point: moves one point, clamped between prev_point and
\* next_point; returns the new list and the clipped flag.  No method of
\* Peak or Valley calls it.
Peak_move_point(pts, i, x, y, prev_point, next_point) ==
    LET new_x == pts[i].x + x
        clipped_x == Clip(new_x, pts[prev_point].x, pts[next_point].x)
        p1 == IF x # 0 THEN SetX(pts, i, clipped_x) ELSE pts
        cx == x # 0 /\ new_x # clipped_x
        new_y == p1[i].y + y
        clipped_y == Clip(new_y, p1[prev_point].y, p1[next_point].y)
        p2 == IF y # 0 THEN SetY(p1, i, clipped_y) ELSE p1
        cy == y # 0 /\ new_y # clipped_y
    IN [pts |-> p2, clipped |-> (cx \/ cy)]

\* SolutionBox6.__init__: the peaks and valleys as indices into points
\* (1-based; Python's points[k] is index k+1)
SolutionBox6 ==
    [n |-> 6,
     peaks |-> << [ll |-> 2, lh |-> 3, rh |-> 4, rl |-> 5,
                   prev_point |-> 1, next_point |-> 6] >>,
     valleys |-> << [ll |-> 1, rl |-> 3, prev_point |-> None, next_point |-> 3],
                    [ll |-> 5, rl |-> 6, prev_point |-> 4, next_point |-> None] >>]

\* SolutionPeak8.__init__
SolutionPeak8 ==
    [n |-> 8,
     peaks |-> << [ll |-> None, lh |-> 1, rh |-> 2, rl |-> 3,
                   prev_point |-> None, next_point |-> 4],
                  [ll |-> 4, lh |-> 5, rh |-> 6, rl |-> 7,
                   prev_point |-> 3, next_point |-> 8] >>,
     valleys |-> << [ll |-> 3, rl |-> 4, prev_point |-> 2, next_point |-> 5],
                    [ll |-> 7, rl |-> 8, prev_point |-> 6, next_point |-> None] >>]

Solution(s) == IF s = "SolutionBox6" THEN SolutionBox6 ELSE SolutionPeak8

\* Peak.center / Valley.center: midpoint of the two points
Peak_center(pts, pk) ==
    [x |-> (pts[pk.lh].x + pts[pk.rh].x) \div 2,
     y |-> (pts[pk.lh].y + pts[pk.rh].y) \div 2]

Valley_center(pts, v) ==
    [x |-> (pts[v.ll].x + pts[v.rl].x) \div 2,
     y |-> (pts[v.ll].y + pts[v.rl].y) \div 2]

\* Peak.move_x: only a non-negative amount moves anything; nothing is clamped
Peak_move_x(pts, pk, amount) ==
    IF amount >= 0
    THEN LET p1 == IF pk.prev_point # None /\ pk.ll # None
                   THEN SetX(SetX(pts, pk.ll, pts[pk.ll].x + amount),
                             pk.lh, pts[pk.lh].x + amount)
                   ELSE pts
         IN IF pk.next_point # None /\ pk.rl # None
            THEN SetX(SetX(p1, pk.rh, p1[pk.rh].x + amount),
                      pk.rl, p1[pk.rl].x + amount)
            ELSE p1
    ELSE pts

\* Peak.move_y
Peak_move_y(pts, pk, amount) ==
    LET p1 == SetY(pts, pk.lh, pts[pk.lh].y + amount)
    IN SetY(p1, pk.rh, p1[pk.rh].y + amount)

\* Peak.set_x
Peak_set_x(pts, pk, x) == Peak_move_x(pts, pk, x - Peak_center(pts, pk).x)

\* Peak.set_y
Peak_set_y(pts, pk, y) == Peak_move_y(pts, pk, y - Peak_center(pts, pk).y)

\* Valley.move_y
Valley_move_y(pts, v, amount) ==
    IF amount # 0
    THEN LET p1 == SetY(pts, v.ll, pts[v.ll].y + amount)
         IN SetY(p1, v.rl, p1[v.rl].y + amount)
    ELSE pts

\* Valley.set_y
Valley_set_y(pts, v, y) == Valley_move_y(pts, v, y - Valley_center(pts, v).y)

\* the x-ordering invariant of a Solution's point list
XMonotonic(pts) == \A i \in 1 .. (Len(pts) - 1) : pts[i].x <= pts[i + 1].x

\* The x-monotonic point lists of length n a caller can hand to a Solution
\* constructor: x on the whole units 0..MaxX, the two high points of each
\* peak at hiY and every other point at LowY.
HighIdx(s) == {(Solution(s)).peaks[k].lh : k \in 1 .. Len((Solution(s)).peaks)}
                \cup {(Solution(s)).peaks[k].rh : k \in 1 .. Len((Solution(s)).peaks)}

InitialPoints(s, hiY) ==
    LET n == (Solution(s)).n
    IN { [i \in 1 .. n |->
            [x |-> xs[i] * Unit,
             y |-> IF i \in HighIdx(s) THEN hiY ELSE LowY]] :
         xs \in {f \in [1 .. n -> 0 .. MaxX] :
                    \A i \in 1 .. (n - 1) : f[i] <= f[i + 1]} }

Amounts == {a * Unit : a \in (0 - MaxAmt) .. MaxAmt}
XTargets == {a * Unit : a \in 0 .. MaxX}
YTargets == {LowY, HighY}

NoCall == [op |-> "none", kind |-> "none", idx |-> 0, arg |-> 0, ret |-> "None"]

\* the last call made, and the number of calls
last == IF calls = <<>> THEN NoCall ELSE calls[Len(calls)]
ops == Len(calls)

InitGeom ==
    /\ shape \in {"SolutionBox6", "SolutionPeak8"}
    /\ \E hiY \in {LowY, HighY} : points \in InitialPoints(shape, hiY)
    /\ before = points
    /\ calls = <<>>
    /\ IdleAlign
    /\ IdleOpt
    /\ IdleMeas
    /\ IdleHist

\* one call on a peak or a valley; every one of these methods returns None
Called(new, op, kind, k, arg) ==
    /\ ops < MaxOps
    /\ points' = new
    /\ before' = points
    /\ calls' = Append(calls, [op |-> op, kind |-> kind, idx |-> k,
                                arg |-> arg, ret |-> "None"])
    /\ UNCHANGED shape
    /\ UNCHANGED alignVars
    /\ UNCHANGED optVars
    /\ UNCHANGED measVars
    /\ UNCHANGED histVars

PeakMoveX ==
    \E k \in 1 .. Len((Solution(shape)).peaks), a \in Amounts :
        Called(Peak_move_x(points, (Solution(shape)).peaks[k], a),
               "move_x", "Peak", k, a)

PeakMoveY ==
    \E k \in 1 .. Len((Solution(shape)).peaks), a \in Amounts :
        Called(Peak_move_y(points, (Solution(shape)).peaks[k], a),
               "move_y", "Peak", k, a)

PeakSetX ==
    \E k \in 1 .. Len((Solution(shape)).peaks), x \in XTargets :
        Called(Peak_set_x(points, (Solution(shape)).peaks[k], x),
               "set_x", "Peak", k, x)

PeakSetY ==
    \E k \in 1 .. Len((Solution(shape)).peaks), y \in YTargets :
        Called(Peak_set_y(points, (Solution(shape)).peaks[k], y),
               "set_y", "Peak", k, y)

ValleyMoveY ==
    \E k \in 1 .. Len((Solution(shape)).valleys), a \in Amounts :
        Called(Valley_move_y(points, (Solution(shape)).valleys[k], a),
               "move_y", "Valley", k, a)

ValleySetY ==
    \E k \in 1 .. Len((Solution(shape)).valleys), y \in YTargets :
        Called(Valley_set_y(points, (Solution(shape)).valleys[k], y),
               "set_y", "Valley", k, y)

NextGeom ==
    \/ PeakMoveX
    \/ PeakMoveY
    \/ PeakSetX
    \/ PeakSetY
    \/ ValleyMoveY
    \/ ValleySetY

SpecGeom == InitGeom /\ [][NextGeom]_vars

\* the halving in center is exact in every reachable state
ExactCenters ==
    ops < MaxOps =>
        /\ \A k \in 1 .. Len((Solution(shape)).peaks) :
              LET pk == (Solution(shape)).peaks[k]
              IN /\ (points[pk.lh].x + points[pk.rh].x) % 2 = 0
                 /\ (points[pk.lh].y + points[pk.rh].y) % 2 = 0
        /\ \A k \in 1 .. Len((Solution(shape)).valleys) :
              LET v == (Solution(shape)).valleys[k]
              IN (points[v.ll].y + points[v.rl].y) % 2 = 0

(***************************************************************************)
(* Spectrum comparator                                                     *)
(*                                                                         *)
(* A spectrum is a list of samples <<x, y>>.  x is a Python float; the     *)
(* model keeps it as an integer number of ticks, Grain ticks to 0.0001,    *)
(* so that round(x, 4) is a real rounding to a multiple of Grain.          *)
(***************************************************************************)
\* largest x of a sample the caller builds, in ticks
MaxTick == 9
\* largest number of samples of a spectrum the caller builds
MaxLen == 2
\* largest channel width, in ticks
MaxW == 6

\* ticks per 0.0001, the resolution round(x, 4) rounds to
Grain == 3

\* Python's round(x, 4): to the nearest multiple of Grain, a tie to the even one
Round4(v) ==
    LET q == v \div Grain
        r == v % Grain
    IN IF 2 * r < Grain THEN q * Grain
       ELSE IF 2 * r > Grain THEN (q + 1) * Grain
       ELSE IF q % 2 = 0 THEN q * Grain ELSE (q + 1) * Grain

\* InsertFront with the loop test "round(x, 4) > limit"
RECURSIVE InsertFront_strict(_, _, _, _)
InsertFront_strict(lst, x, limit, channel_width) ==
    IF Round4(x) > limit
    THEN InsertFront_strict(<< <<Round4(x), 0>> >> \o lst, x - channel_width,
                            limit, channel_width)
    ELSE lst

\* InsertFront with lst.append(...) in place of lst.insert(0, ...)
RECURSIVE InsertFront_append(_, _, _, _)
InsertFront_append(lst, x, limit, channel_width) ==
    IF Round4(x) >= limit
    THEN InsertFront_append(Append(lst, <<Round4(x), 0>>), x - channel_width,
                            limit, channel_width)
    ELSE lst

\* InsertFront with lst.insert(1, ...) in place of lst.insert(0, ...)
RECURSIVE InsertFront_index1(_, _, _, _)
InsertFront_index1(lst, x, limit, channel_width) ==
    IF Round4(x) >= limit
    THEN InsertFront_index1(<<lst[1], <<Round4(x), 0>> >> \o Tail(lst),
                            x - channel_width, limit, channel_width)
    ELSE lst

\* the loops "while round(x, 4) >= limit: lst.insert(0, (round(x, 4), 0));
\* x -= channel_width" of uniform_espe_lists
RECURSIVE InsertFront(_, _, _, _)
InsertFront(lst, x, limit, channel_width) ==
    IF Round4(x) >= limit
    THEN InsertFront(<< <<Round4(x), 0>> >> \o lst, x - channel_width,
                     limit, channel_width)
    ELSE lst

\* the loops "while round(x, 4) <= limit: lst.append((round(x, 4), 0));
\* x += channel_width" of uniform_espe_lists
RECURSIVE AppendBack(_, _, _, _)
AppendBack(lst, x, limit, channel_width) ==
    IF Round4(x) <= limit
    THEN AppendBack(Append(lst, <<Round4(x), 0>>), x + channel_width,
                    limit, channel_width)
    ELSE lst

\* uniform_espe_lists(lists, channel_width): pads the two lists in place and
\* returns them
uniform_espe_lists(lists, channel_width) ==
    LET first == lists[1]
        second == lists[2]
        first1 == IF second[1][1] < first[1][1]
                  THEN InsertFront(first, first[1][1] - channel_width,
                                   second[1][1], channel_width)
                  ELSE first
        second1 == IF ~(second[1][1] < first[1][1]) /\ first[1][1] < second[1][1]
                   THEN InsertFront(second, second[1][1] - channel_width,
                                    first[1][1], channel_width)
                   ELSE second
        lastf == first1[Len(first1)][1]
        lasts == second1[Len(second1)][1]
        second2 == IF lasts < lastf
                   THEN AppendBack(second1, lasts + channel_width, lastf,
                                   channel_width)
                   ELSE second1
        first2 == IF ~(lasts < lastf) /\ lastf < lasts
                  THEN AppendBack(first1, lastf + channel_width, lasts,
                                  channel_width)
                  ELSE first1
    IN <<first2, second2>>

\* Python's binding of a call's arguments to the parameters
\* (lists, channel_width) of uniform_espe_lists: a parameter given both by
\* position and by keyword is a TypeError, and so is a missing one
BindUniformArgs(positional, keywords) ==
    IF Len(positional) > 2 THEN [error |-> "TypeError"]
    ELSE IF Len(positional) = 2 /\ "channel_width" \in DOMAIN keywords
    THEN [error |-> "TypeError"]
    ELSE IF Len(positional) = 2
    THEN [error |-> "none", lists |-> positional[1],
          channel_width |-> positional[2]]
    ELSE IF Len(positional) = 1 /\ "channel_width" \in DOMAIN keywords
    THEN [error |-> "none", lists |-> positional[1],
          channel_width |-> keywords["channel_width"]]
    ELSE [error |-> "TypeError"]

Min(a, b) == IF a < b THEN a ELSE b

\* sum((opt_p[1] - mesu_p[1])**2 for opt_p, mesu_p in zip(optim, measured))
RECURSIVE SumSquares(_, _, _)
SumSquares(optim, measured, n) ==
    IF n = 0 THEN 0
    ELSE SumSquares(optim, measured, n - 1)
         + (optim[n][2] - measured[n][2]) * (optim[n][2] - measured[n][2])

\* math_functions.calculate_area: the area between the two spectra
RECURSIVE calculate_area(_, _, _)
calculate_area(optim, measured, n) ==
    IF n = 0 THEN 0
    ELSE calculate_area(optim, measured, n - 1)
         + (IF optim[n][2] >= measured[n][2]
            THEN optim[n][2] - measured[n][2]
            ELSE measured[n][2] - optim[n][2])

\* LinearOptimization._get_spectra_difference(optim_espe) with
\* self.measured_espe, element_simulation.channel_width and
\* self.optimize_by_area.  The outcome is the exception raised or the value
\* returned, a fraction <<numerator, denominator>>, and the lists afterwards.
get_spectra_difference(optim_espe, mesu_espe, channel_width, optimize_by_area) ==
    LET call == BindUniformArgs(<<optim_espe, mesu_espe>>,
                                [channel_width |-> channel_width])
    IN IF call.error # "none"
       THEN [raised |-> call.error, value |-> <<>>,
             lists |-> <<optim_espe, mesu_espe>>]
       ELSE LET ret == uniform_espe_lists(call.lists, call.channel_width)
                n == Min(Len(ret[1]), Len(ret[2]))
            IN IF optimize_by_area
               THEN [raised |-> "none",
                     value |-> <<calculate_area(ret[1], ret[2], n), 1>>,
                     lists |-> ret]
               ELSE IF n = 0
               THEN [raised |-> "ZeroDivisionError", value |-> <<>>,
                     lists |-> ret]
               ELSE [raised |-> "none",
                     value |-> <<SumSquares(ret[1], ret[2], n), n>>,
                     lists |-> ret]

\* The spectra a caller builds: 1..MaxLen samples, x strictly ascending on
\* the ticks 0..MaxTick, the i-th sample with y = i.
Spectra ==
    UNION { { [i \in 1 .. n |-> <<f[i], i>>] :
                f \in {g \in [1 .. n -> 0 .. MaxTick] :
                          \A i \in 1 .. (n - 1) : g[i] < g[i + 1]} } :
            n \in 1 .. MaxLen }

InitAlign ==
    /\ \E a \in Spectra, b \in Spectra : espe = <<a, b>>
    /\ given = espe
    /\ prev = espe
    /\ width \in 1 .. MaxW
    /\ ncalls = 0
    /\ score = <<>>
    /\ IdleGeom
    /\ IdleOpt
    /\ IdleMeas
    /\ IdleHist

\* a caller calls uniform_espe_lists((first, second), channel_width), on the
\* lists as built or on the lists an earlier call returned
CallUniform ==
    /\ ncalls < 2
    /\ score = <<>>
    /\ prev' = espe
    /\ espe' = uniform_espe_lists(espe, width)
    /\ ncalls' = ncalls + 1
    /\ UNCHANGED <<given, width, score>>
    /\ UNCHANGED geomVars
    /\ UNCHANGED optVars
    /\ UNCHANGED measVars
    /\ UNCHANGED histVars

\* the optimizer scores espe[1] as the simulated spectrum against espe[2] as
\* self.measured_espe
GetSpectraDifference ==
    /\ score = <<>>
    /\ \E optimize_by_area \in BOOLEAN :
          LET r == get_spectra_difference(espe[1], espe[2], width,
                                          optimize_by_area)
          IN /\ score' = [by_area |-> optimize_by_area, raised |-> r.raised,
                          value |-> r.value, optim |-> espe[1],
                          measured |-> espe[2]]
             /\ espe' = r.lists
    /\ UNCHANGED <<given, prev, width, ncalls>>
    /\ UNCHANGED geomVars
    /\ UNCHANGED optVars
    /\ UNCHANGED measVars
    /\ UNCHANGED histVars

NextAlign ==
    \/ CallUniform
    \/ GetSpectraDifference

SpecAlign == InitAlign /\ [][NextAlign]_vars

(***************************************************************************)
(* Linear optimizer                                                        *)
(*                                                                         *)
(* The points of a solution the engine builds itself have x in units of    *)
(* 0.001 and y in units of 0.0001.                                         *)
(***************************************************************************)
\* units of x per 1.0 (get_solution6 subtracts 0.001)
Milli == 1000
\* get_solution6: min_x, max_x, min_y, max_y
min_x == 0
max_x == 120 * Milli
min_y == 1
max_y == 10000
\* number of windows of the sweep: np.linspace(0.0, 120.0, 121)[:-1]
NWindows == 120

\* get_solution6(x1, x2): the points handed to SolutionBox6
get_solution6(x1, x2) ==
    << [x |-> min_x, y |-> min_y],
       [x |-> x1, y |-> min_y],
       [x |-> x1 + 10, y |-> max_y],
       [x |-> x2 - 1, y |-> max_y],
       [x |-> x2, y |-> min_y],
       [x |-> max_x, y |-> min_y] >>

\* the coords of the 8-point solution of initialize_solution
Peak8Coords ==
    << [x |-> 0, y |-> min_y],
       [x |-> 30 * Milli, y |-> min_y],
       [x |-> 30 * Milli + 10, y |-> min_y],
       [x |-> 60 * Milli - 10, y |-> min_y],
       [x |-> 60 * Milli, y |-> min_y],
       [x |-> 90 * Milli - 10, y |-> min_y],
       [x |-> 90 * Milli, y |-> min_y],
       [x |-> 120 * Milli, y |-> min_y] >>

\* initialize_solution with a box of sol_size 5 answered by a solution
initialize_solution_box5(c) ==
    IF c.optimization_type = "RECOIL"
    THEN IF c.rec_type = "box"
         THEN IF c.sol_size = 5
              THEN [raised |-> "none", solution |-> Peak8Coords]
              ELSE IF c.sol_size = 7
              THEN [raised |-> "NotImplementedError", solution |-> <<>>]
              ELSE [raised |-> "ValueError", solution |-> <<>>]
         ELSE IF c.rec_type = "two-peak"
         THEN IF c.sol_size = 9
              THEN [raised |-> "none", solution |-> Peak8Coords]
              ELSE IF c.sol_size = 11
              THEN [raised |-> "NotImplementedError", solution |-> <<>>]
              ELSE [raised |-> "ValueError", solution |-> <<>>]
         ELSE [raised |-> "ValueError", solution |-> <<>>]
    ELSE IF c.optimization_type = "FLUENCE"
    THEN [raised |-> "NotImplementedError", solution |-> <<>>]
    ELSE [raised |-> "ValueError", solution |-> <<>>]

\* LinearOptimization.initialize_solution: the exception raised, or the
\* solution's points
initialize_solution(c) ==
    IF c.optimization_type = "RECOIL"
    THEN IF c.rec_type = "box"
         THEN IF c.sol_size = 5
              THEN [raised |-> "NotImplementedError", solution |-> <<>>]
              ELSE IF c.sol_size = 7
              THEN [raised |-> "NotImplementedError", solution |-> <<>>]
              ELSE [raised |-> "ValueError", solution |-> <<>>]
         ELSE IF c.rec_type = "two-peak"
         THEN IF c.sol_size = 9
              THEN [raised |-> "none", solution |-> Peak8Coords]
              ELSE IF c.sol_size = 11
              THEN [raised |-> "NotImplementedError", solution |-> <<>>]
              ELSE [raised |-> "ValueError", solution |-> <<>>]
         ELSE [raised |-> "ValueError", solution |-> <<>>]
    ELSE IF c.optimization_type = "FLUENCE"
    THEN [raised |-> "NotImplementedError", solution |-> <<>>]
    ELSE [raised |-> "ValueError", solution |-> <<>>]

\* LinearOptimization.form_recoil
form_recoil(current_solution, name) ==
    [name |-> IF name = "" THEN "opt" ELSE name,
     points |-> current_solution, color |-> "red"]

\* what a call of the base optimizer's prepare_measured_spectra,
\* combine_previous_erd_files and modify_measurement can end in
PreparationIO == {"ok", "OSError", "SubprocessError"}

\* what a simulator invocation can raise
SimulatorErrors == {"OSError", "SubprocessError"}

\* the measured spectra modify_measurement can leave in self.measured_espe
MeasuredSpectra ==
    {m \in Spectra : Len(m) = MaxLen /\ \A i \in 1 .. Len(m) : m[i][1] % Grain = 0}

\* LinearOptimization._prepare_optimization up to its call of
\* run_initial_simulation: the exception raised and the fields as it left
\* them (io: how the base optimizer's file work ends, m: the measured
\* spectrum it reads)
prepare_optimization(c, recoils, fluence, io, m) ==
    IF c.measurement = "None"
    THEN [raised |-> "ValueError", optimization_recoils |-> <<>>,
          optimized_fluence |-> fluence, measured_espe |-> <<>>,
          initial_solution |-> <<>>]
    ELSE IF io # "ok"
    THEN [raised |-> io, optimization_recoils |-> <<>>,
          optimized_fluence |-> "None", measured_espe |-> <<>>,
          initial_solution |-> <<>>]
    ELSE LET init == IF c.starting_solutions = <<>>
                     THEN initialize_solution(c)
                     ELSE [raised |-> "none", solution |-> c.starting_solutions]
         IN IF init.raised # "none"
            THEN [raised |-> init.raised, optimization_recoils |-> <<>>,
                  optimized_fluence |-> "None", measured_espe |-> m,
                  initial_solution |-> <<>>]
            ELSE [raised |-> "none",
                  optimization_recoils |->
                      IF c.optimization_type = "RECOIL"
                      THEN <<form_recoil(init.solution, "")>>
                      ELSE <<>>,
                  optimized_fluence |-> "None", measured_espe |-> m,
                  initial_solution |-> init.solution]

\* an except clause that catches ValueError only
CaughtInPreparation_ValueErrorOnly == {"ValueError"}

\* the exceptions start_optimization's except clause around
\* _prepare_optimization catches
CaughtInPreparation == {"OSError", "ValueError", "SubprocessError"}

Event(ev, state, info) == [ev |-> ev, state |-> state, info |-> info]

\* an except clause that reports and cleans up but does not return: the
\* sweep follows
ReportPreparationError_continues(e) ==
    /\ log' = log \o << Event("prepare", "", ""),
                        Event("on_error", "FINISHED", e),
                        Event("clean_up", "", IF token THEN "set" ELSE "clear") >>
    /\ children' = 0
    /\ pc' = "sweep"
    /\ exc' = "none"

\* the call of _prepare_optimization raised e and the except clause caught
\* it: self.on_error(self._get_message(OptimizationState.FINISHED,
\* error=...)) followed by self.clean_up(cancellation_token), then return
ReportPreparationError(e) ==
    /\ log' = log \o << Event("prepare", "", ""),
                        Event("on_error", "FINISHED", e),
                        Event("clean_up", "", IF token THEN "set" ELSE "clear") >>
    /\ children' = 0
    /\ pc' = "returned"
    /\ exc' = "none"

\* the call of _prepare_optimization raised e and no handler of
\* start_optimization catches it (kids: the child simulations left running)
Propagate(e, kids) ==
    /\ log' = Append(log, Event("prepare", "", ""))
    /\ children' = kids
    /\ pc' = "raised"
    /\ exc' = e

\* how a failure of preparation leaves start_optimization
LeavePreparation(e, kids) ==
    IF e \in CaughtInPreparation
    THEN ReportPreparationError(e)
    ELSE Propagate(e, kids)

Configurations ==
    [measurement : {"None", "measurement"},
     optimization_type : {"RECOIL", "FLUENCE", "OTHER"},
     rec_type : {"box", "two-peak", "other"},
     sol_size : {5, 7, 9, 11, 13},
     skip_simulation : BOOLEAN,
     starting_solutions : {<<>>, get_solution6(30 * Milli, 60 * Milli)},
     optimize_by_area : BOOLEAN,
     channel_width : {Grain}]

\* the state when start_optimization is called: the optimizer as __init__
\* left it, the element simulation with or without earlier results
InitOpt ==
    /\ cfg \in Configurations
    /\ pc = "start"
    /\ exc = "none"
    /\ optimization_recoils \in {<<>>, <<form_recoil(Peak8Coords, "optfirst")>>}
    /\ optimized_fluence \in {"None", "fluence"}
    /\ at_call = [optimization_recoils |-> optimization_recoils,
                  optimized_fluence |-> optimized_fluence]
    /\ initial_solution = <<>>
    /\ solution = <<>>
    /\ measured_espe = <<>>
    /\ window = 0
    /\ evaluated = <<>>
    /\ visited = <<>>
    /\ token = FALSE
    /\ children = 0
    /\ log = <<>>
    /\ IdleGeom
    /\ IdleAlign
    /\ IdleMeas
    /\ IdleHist

\* start_optimization from its call to the simulator invocation of
\* _prepare_optimization (or, with skip_simulation, to the end of
\* preparation), with the except clause
Prepare ==
    /\ pc = "start"
    /\ \E io \in PreparationIO, m \in MeasuredSpectra :
          LET r == prepare_optimization(cfg, optimization_recoils,
                                        optimized_fluence, io, m)
          IN /\ optimization_recoils' = r.optimization_recoils
             /\ optimized_fluence' = r.optimized_fluence
             /\ measured_espe' = r.measured_espe
             /\ initial_solution' = r.initial_solution
             /\ IF r.raised # "none"
                THEN /\ LeavePreparation(r.raised, children)
                     /\ UNCHANGED solution
                ELSE IF cfg.skip_simulation
                THEN /\ solution' = r.initial_solution
                     /\ pc' = "sweep"
                     /\ log' = Append(log, Event("prepare", "", ""))
                     /\ UNCHANGED <<exc, children>>
                ELSE /\ pc' = "initial_simulation"
                     /\ log' = Append(log, Event("prepare", "", ""))
                     /\ UNCHANGED <<solution, exc, children>>
    /\ UNCHANGED <<cfg, at_call, window, evaluated, visited, token>>
    /\ UNCHANGED geomVars
    /\ UNCHANGED alignVars
    /\ UNCHANGED measVars
    /\ UNCHANGED histVars

\* a preparation that invokes the simulator twice
RunInitialSimulation_twice ==
    /\ pc = "initial_simulation"
    /\ log' = log \o << Event("simulate", "", "initial"),
                        Event("simulate", "", "initial") >>
    /\ solution' = initial_solution
    /\ pc' = "sweep"
    /\ UNCHANGED <<exc, children>>
    /\ UNCHANGED <<cfg, at_call, optimization_recoils, optimized_fluence,
                   initial_solution, measured_espe, window, evaluated,
                   visited, token>>
    /\ UNCHANGED geomVars
    /\ UNCHANGED alignVars
    /\ UNCHANGED measVars
    /\ UNCHANGED histVars

\* run_initial_simulation(cancellation_token, ion_division), one simulator
\* invocation, and the end of _prepare_optimization
RunInitialSimulation ==
    /\ pc = "initial_simulation"
    /\ \/ /\ log' = Append(log, Event("simulate", "", "initial"))
          /\ solution' = initial_solution
          /\ pc' = "sweep"
          /\ UNCHANGED <<exc, children>>
       \/ \E e \in SimulatorErrors :
             /\ log' = log \o << Event("simulate", "", "initial"),
                                 Event("on_error", "FINISHED", e),
                                 Event("clean_up", "",
                                       IF token THEN "set" ELSE "clear") >>
             /\ children' = 0
             /\ pc' = "returned"
             /\ exc' = "none"
             /\ UNCHANGED solution
    /\ UNCHANGED <<cfg, at_call, optimization_recoils, optimized_fluence,
                   initial_solution, measured_espe, window, evaluated,
                   visited, token>>
    /\ UNCHANGED geomVars
    /\ UNCHANGED alignVars
    /\ UNCHANGED measVars
    /\ UNCHANGED histVars

\* evaluate_solution with FLUENCE scored the way RECOIL is
evaluate_solution_fluence_scored(c, sol, recoils, mespe, sim) ==
    IF c.optimization_type \in {"RECOIL", "FLUENCE"}
    THEN IF sim.raised # "none"
         THEN [raised |-> sim.raised, value |-> <<>>, simulated |-> TRUE,
               optimization_recoils |-> <<form_recoil(sol, "")>>,
               measured_espe |-> mespe]
         ELSE LET d == get_spectra_difference(sim.espe, mespe, c.channel_width,
                                              c.optimize_by_area)
              IN [raised |-> d.raised, value |-> d.value, simulated |-> TRUE,
                  optimization_recoils |-> <<form_recoil(sol, "")>>,
                  measured_espe |-> d.lists[2]]
    ELSE [raised |-> "ValueError", value |-> <<>>, simulated |-> FALSE,
          optimization_recoils |-> recoils, measured_espe |-> mespe]

\* evaluate_solution that swallows the simulator's exception and scores 0
evaluate_solution_swallows(c, sol, recoils, mespe, sim) ==
    IF c.optimization_type = "RECOIL"
    THEN IF sim.raised # "none"
         THEN [raised |-> "none", value |-> <<0, 1>>, simulated |-> TRUE,
               optimization_recoils |-> <<form_recoil(sol, "")>>,
               measured_espe |-> mespe]
         ELSE LET d == get_spectra_difference(sim.espe, mespe, c.channel_width,
                                              c.optimize_by_area)
              IN [raised |-> d.raised, value |-> d.value, simulated |-> TRUE,
                  optimization_recoils |-> <<form_recoil(sol, "")>>,
                  measured_espe |-> d.lists[2]]
    ELSE IF c.optimization_type = "FLUENCE"
    THEN [raised |-> "NotImplementedError", value |-> <<>>,
          simulated |-> FALSE, optimization_recoils |-> recoils,
          measured_espe |-> mespe]
    ELSE [raised |-> "ValueError", value |-> <<>>, simulated |-> FALSE,
          optimization_recoils |-> recoils, measured_espe |-> mespe]

\* LinearOptimization.evaluate_solution(solution) on a simulator that raises
\* (sim.raised) or returns the spectrum sim.espe: the exception raised or the
\* objective value, the recoils, measured_espe, and whether the simulator ran
evaluate_solution(c, sol, recoils, mespe, sim) ==
    IF c.optimization_type = "RECOIL"
    THEN IF sim.raised # "none"
         THEN [raised |-> sim.raised, value |-> <<>>, simulated |-> TRUE,
               optimization_recoils |-> <<form_recoil(sol, "")>>,
               measured_espe |-> mespe]
         ELSE LET d == get_spectra_difference(sim.espe, mespe, c.channel_width,
                                              c.optimize_by_area)
              IN [raised |-> d.raised, value |-> d.value, simulated |-> TRUE,
                  optimization_recoils |-> <<form_recoil(sol, "")>>,
                  measured_espe |-> d.lists[2]]
    ELSE IF c.optimization_type = "FLUENCE"
    THEN [raised |-> "NotImplementedError", value |-> <<>>,
          simulated |-> FALSE, optimization_recoils |-> recoils,
          measured_espe |-> mespe]
    ELSE [raised |-> "ValueError", value |-> <<>>, simulated |-> FALSE,
          optimization_recoils |-> recoils, measured_espe |-> mespe]

\* what a simulator invocation of the sweep can do: raise, leaving 0 or 1
\* child running, or return a spectrum (the measured one, or another)
SimulatorOutcomes ==
    {[raised |-> e, espe |-> <<>>, kids |-> k] :
        e \in SimulatorErrors, k \in 0 .. 1}
    \cup {[raised |-> "none", espe |-> m, kids |-> 0] : m \in MeasuredSpectra}

\* a pass of the loop that overwrites self.solution with the candidate
EvaluateCandidate_moves_stored ==
    /\ pc = "sweep"
    /\ window < NWindows
    /\ \E sim \in SimulatorOutcomes,
          sol \in {get_solution6(window * Milli, window * Milli + Milli)} :
       \E r \in {evaluate_solution(cfg, sol, optimization_recoils,
                                   measured_espe, sim)} :
          LET ran == IF r.simulated
                     THEN <<Event("simulate", "", "candidate")>>
                     ELSE <<>>
          IN /\ optimization_recoils' = r.optimization_recoils
             /\ measured_espe' = r.measured_espe
             /\ evaluated' = [solution |-> sol,
                              espe |-> IF r.simulated THEN sim.espe ELSE <<>>,
                              measured |-> measured_espe,
                              raised |-> r.raised, value |-> r.value]
             /\ visited' = Append(visited, window)
             /\ solution' = sol
             /\ log' = log \o ran
             /\ children' = IF r.simulated THEN children + sim.kids ELSE children
             /\ IF r.raised # "none"
                THEN pc' = "raised" /\ exc' = r.raised /\ window' = window
                ELSE IF window + 1 = NWindows
                THEN /\ pc' = "raised"
                     /\ exc' = "NotImplementedError"
                     /\ window' = window + 1
                ELSE pc' = "sweep" /\ exc' = exc /\ window' = window + 1
    /\ UNCHANGED <<cfg, at_call, optimized_fluence, initial_solution, token>>
    /\ UNCHANGED geomVars
    /\ UNCHANGED alignVars
    /\ UNCHANGED measVars
    /\ UNCHANGED histVars

\* one pass of the loop of _fit_simulation, called by _optimize from
\* start_optimization outside any try: the candidate of window i is built
\* and evaluated; after the last window _fit_simulation raises
\* NotImplementedError
EvaluateCandidate ==
    /\ pc = "sweep"
    /\ window < NWindows
    /\ \E sim \in SimulatorOutcomes,
          sol \in {get_solution6(window * Milli, window * Milli + Milli)} :
       \E r \in {evaluate_solution(cfg, sol, optimization_recoils,
                                   measured_espe, sim)} :
          LET ran == IF r.simulated
                     THEN <<Event("simulate", "", "candidate")>>
                     ELSE <<>>
          IN /\ optimization_recoils' = r.optimization_recoils
             /\ measured_espe' = r.measured_espe
             /\ evaluated' = [solution |-> sol,
                              espe |-> IF r.simulated THEN sim.espe ELSE <<>>,
                              measured |-> measured_espe,
                              raised |-> r.raised, value |-> r.value]
             /\ visited' = Append(visited, window)
             /\ log' = log \o ran
             /\ children' = IF r.simulated THEN children + sim.kids ELSE children
             /\ IF r.raised # "none"
                THEN pc' = "raised" /\ exc' = r.raised /\ window' = window
                ELSE IF window + 1 = NWindows
                THEN /\ pc' = "raised"
                     /\ exc' = "NotImplementedError"
                     /\ window' = window + 1
                ELSE pc' = "sweep" /\ exc' = exc /\ window' = window + 1
    /\ UNCHANGED <<cfg, at_call, optimized_fluence, initial_solution, solution,
                   token>>
    /\ UNCHANGED geomVars
    /\ UNCHANGED alignVars
    /\ UNCHANGED measVars
    /\ UNCHANGED histVars

\* another thread sets the cancellation token while start_optimization runs
\* (the log keeps where start_optimization was)
Cancel ==
    /\ pc \in {"start", "initial_simulation", "sweep"}
    /\ ~token
    /\ token' = TRUE
    /\ log' = Append(log, Event("cancel", "", pc))
    /\ UNCHANGED <<cfg, at_call, pc, exc, optimization_recoils,
                   optimized_fluence, initial_solution, solution,
                   measured_espe, window, evaluated, visited, children>>
    /\ UNCHANGED geomVars
    /\ UNCHANGED alignVars
    /\ UNCHANGED measVars
    /\ UNCHANGED histVars

NextOpt ==
    \/ Prepare
    \/ RunInitialSimulation
    \/ EvaluateCandidate
    \/ Cancel

SpecOpt == InitOpt /\ [][NextOpt]_vars

(***************************************************************************)
(* Construction of solutions                                               *)
(*                                                                         *)
(* One call of a Solution constructor, of get_solution6 or of              *)
(* initialize_solution on a fresh optimizer.  shape and points hold the    *)
(* solution object the call returned ("none", <<>> when it raised), before *)
(* the point list handed to the constructor, calls the call made.          *)
(***************************************************************************)
\* longest point list a caller hands to a constructor
MaxPoints == 10

\* the x-monotonic point lists a caller can hand to a constructor
PointLists ==
    UNION { { [i \in 1 .. n |-> [x |-> f[i] * Milli, y |-> min_y]] :
                f \in {g \in [1 .. n -> 0 .. MaxX] :
                          \A i \in 1 .. (n - 1) : g[i] <= g[i + 1]} } :
            n \in 1 .. MaxPoints }

\* the window edges get_solution6 is called with, in units of 0.001
WindowEdges == {0, 5, 10, 11, Milli, 60 * Milli, max_x - 10, max_x}

NoSolution(e) == [raised |-> e, shape |-> "none", points |-> <<>>]

\* SolutionBox4.__init__ and SolutionPeak10.__init__: raise NotImplementedError
SolutionBox4_init(pts) == NoSolution("NotImplementedError")
SolutionPeak10_init(pts) == NoSolution("NotImplementedError")

\* SolutionBox6.__init__ and SolutionPeak8.__init__: points[0] .. points[5]
\* (points[7]) are read, which raises IndexError on a shorter list; the
\* length is not tested otherwise and the whole list is kept
SolutionBox6_init(pts) ==
    IF Len(pts) < SolutionBox6.n
    THEN NoSolution("IndexError")
    ELSE [raised |-> "none", shape |-> "SolutionBox6", points |-> pts]

SolutionPeak8_init(pts) ==
    IF Len(pts) < SolutionPeak8.n
    THEN NoSolution("IndexError")
    ELSE [raised |-> "none", shape |-> "SolutionPeak8", points |-> pts]

Variants == {"SolutionBox4", "SolutionBox6", "SolutionPeak8", "SolutionPeak10"}

Construct(variant, pts) ==
    IF variant = "SolutionBox4" THEN SolutionBox4_init(pts)
    ELSE IF variant = "SolutionBox6" THEN SolutionBox6_init(pts)
    ELSE IF variant = "SolutionPeak8" THEN SolutionPeak8_init(pts)
    ELSE SolutionPeak10_init(pts)

InitBuild ==
    /\ shape = "none"
    /\ points = <<>>
    /\ before = <<>>
    /\ calls = <<>>
    /\ IdleAlign
    /\ IdleOpt
    /\ IdleMeas
    /\ IdleHist

\* the call op(arg) handed pts to a constructor and ended as r says
Built(op, arg, pts, r) ==
    /\ calls = <<>>
    /\ shape' = r.shape
    /\ points' = r.points
    /\ before' = pts
    /\ calls' = <<[op |-> op, arg |-> arg, raised |-> r.raised]>>
    /\ UNCHANGED alignVars
    /\ UNCHANGED optVars
    /\ UNCHANGED measVars
    /\ UNCHANGED histVars

\* SolutionBox4(points), SolutionBox6(points), SolutionPeak8(points),
\* SolutionPeak10(points)
ConstructSolution ==
    \E variant \in Variants, pts \in PointLists :
        Built(variant, pts, pts, Construct(variant, pts))

\* get_solution6(x1, x2) with 0 <= x1 <= x2 <= 120
GetSolution6 ==
    \E x1 \in WindowEdges, x2 \in WindowEdges :
        /\ x1 <= x2
        /\ Built("get_solution6", <<x1, x2>>, get_solution6(x1, x2),
                 SolutionBox6_init(get_solution6(x1, x2)))

\* initialize_solution() on an optimizer whose self.solution is None;
\* the 8-point solution is SolutionPeak8(points)
InitializeSolution ==
    \E c \in Configurations :
        LET r == initialize_solution(c)
        IN Built("initialize_solution", c, r.solution,
                 IF r.raised = "none"
                 THEN SolutionPeak8_init(r.solution)
                 ELSE NoSolution(r.raised))

NextBuild ==
    \/ ConstructSolution
    \/ GetSolution6
    \/ InitializeSolution

SpecBuild == InitBuild /\ [][NextBuild]_vars

(***************************************************************************)
(* The collection of measurements of a project (measurement.py).  A file   *)
(* name is a pair <<base, k>>: <<"a", 1>> is a.asc, <<"a", 2>> is          *)
(* a_2.asc, and so on.  A measurement file is given by the directory and   *)
(* the base of its path; the directory is the project's, empty, or another *)
(* one.                                                                    *)
(***************************************************************************)
MaxTab == 2
MaxCalls == 3
TabIds == 1 .. MaxTab
Bases == {"a", "b"}
Directories == {"project", "", "elsewhere"}
MeasurementFiles == [directory : Directories, base : Bases]

\* Measurements.__init__: self.measurements = {}
Measurements_init == <<>>

\* Measurements.is_empty
is_empty(ms) == Cardinality(DOMAIN ms) = 0

\* the measurement_file of every measurement held (Measurement.__init__
\* keeps the last component of the path it is given)
HeldNames(ms) == {ms[key] : key \in DOMAIN ms}

\* the renaming loop of add_measurement_file: the given name while no file
\* of the project directory has it, else the first of name_2, name_3, ...
\* that no file has
FreeName(base, files) ==
    IF <<base, 1>> \notin files THEN <<base, 1>>
    ELSE <<base, CHOOSE k \in 2 .. (Cardinality(files) + 2) :
                    /\ <<base, k>> \notin files
                    /\ \A j \in 2 .. (k - 1) : <<base, j>> \in files>>

\* self.measurements[tab_id] = measurement
Put(ms, tab_id, name) ==
    [key \in DOMAIN ms \cup {tab_id} |->
        IF key = tab_id THEN name ELSE ms[key]]

\* add_measurement_file without the search of the collection for the file
\* name
add_measurement_file_unchecked(ms, files, measurement_file, tab_id, copy_ok, made_ok) ==
    LET copied == /\ measurement_file.directory # "project"
                  /\ measurement_file.directory # ""
        new_file == IF copied THEN FreeName(measurement_file.base, files)
                    ELSE <<measurement_file.base, 1>>
        files2 == IF copied THEN files \cup {new_file} ELSE files
    IN  IF (copied /\ ~copy_ok) \/ ~made_ok
        THEN [ret |-> <<>>, measurements |-> ms, files |-> files,
              file_name |-> <<>>]
        ELSE [ret |-> <<new_file, tab_id>>,
              measurements |-> Put(ms, tab_id, new_file),
              files |-> files2, file_name |-> new_file]

\* Measurements.add_measurement_file(measurement_file, tab_id).  copy_ok:
\* shutil.copyfile does not raise; made_ok: Measurement(...) does not
\* raise.  The result has the value returned (<<>> for None), the
\* collection and the project directory afterwards, and the file name the
\* collection was searched for (<<>> when the search is not reached).
add_measurement_file(ms, files, measurement_file, tab_id, copy_ok, made_ok) ==
    LET copied == /\ measurement_file.directory # "project"
                  /\ measurement_file.directory # ""
        new_file == IF copied THEN FreeName(measurement_file.base, files)
                    ELSE <<measurement_file.base, 1>>
        files2 == IF copied THEN files \cup {new_file} ELSE files
    IN  IF copied /\ ~copy_ok
        THEN [ret |-> <<>>, measurements |-> ms, files |-> files,
              file_name |-> <<>>]
        ELSE IF new_file \in HeldNames(ms)
        THEN [ret |-> <<>>, measurements |-> ms, files |-> files2,
              file_name |-> new_file]
        ELSE IF ~made_ok
        THEN [ret |-> <<>>, measurements |-> ms, files |-> files2,
              file_name |-> new_file]
        ELSE [ret |-> <<new_file, tab_id>>,
              measurements |-> Put(ms, tab_id, new_file),
              files |-> files2, file_name |-> new_file]

\* Measurements.remove_by_tab_id(tab_id): del r[key] raises KeyError when
\* no measurement has the tab id
remove_by_tab_id(ms, tab_id) ==
    IF tab_id \in DOMAIN ms
    THEN [raised |-> "",
          measurements |-> [key \in DOMAIN ms \ {tab_id} |-> ms[key]]]
    ELSE [raised |-> "KeyError", measurements |-> ms]

\* a new project: some measurement files may lie in its directory already
InitMeas ==
    /\ measurements = Measurements_init
    /\ project_files \in SUBSET {<<base, 1>> : base \in Bases}
    /\ mcalls = <<>>
    /\ IdleGeom
    /\ IdleAlign
    /\ IdleOpt
    /\ IdleHist

AddMeasurementFile ==
    \E measurement_file \in MeasurementFiles, tab_id \in TabIds,
       copy_ok \in BOOLEAN, made_ok \in BOOLEAN :
        \E r \in {add_measurement_file(measurements, project_files,
                      measurement_file, tab_id, copy_ok, made_ok)} :
            /\ Len(mcalls) < MaxCalls
            /\ measurements' = r.measurements
            /\ project_files' = r.files
            /\ mcalls' = Append(mcalls,
                   [op |-> "add_measurement_file",
                    measurement_file |-> measurement_file,
                    file_name |-> r.file_name, ret |-> r.ret,
                    raised |-> "", held |-> measurements])
            /\ UNCHANGED geomVars
            /\ UNCHANGED alignVars
            /\ UNCHANGED optVars
            /\ UNCHANGED histVars

RemoveByTabId ==
    \E tab_id \in TabIds :
        \E r \in {remove_by_tab_id(measurements, tab_id)} :
            /\ Len(mcalls) < MaxCalls
            /\ measurements' = r.measurements
            /\ mcalls' = Append(mcalls,
                   [op |-> "remove_by_tab_id", measurement_file |-> <<>>,
                    file_name |-> <<>>, ret |-> <<>>,
                    raised |-> r.raised, held |-> measurements])
            /\ UNCHANGED project_files
            /\ UNCHANGED geomVars
            /\ UNCHANGED alignVars
            /\ UNCHANGED optVars
            /\ UNCHANGED histVars

NextMeas ==
    \/ AddMeasurementFile
    \/ RemoveByTabId

SpecMeas == InitMeas /\ [][NextMeas]_vars

(***************************************************************************)
(* hist (general_functions.py).  Python floats are binary floating-point   *)
(* numbers: the result of every arithmetic operation is rounded to the     *)
(* nearest number with Precision significant bits, ties to the even        *)
(* mantissa.  The model keeps that rounding with a short mantissa; under-  *)
(* and overflow of the exponent are out of its range.  Widths are even, so *)
(* that width / 2.0 is a whole number.                                     *)
(***************************************************************************)
Precision == 3
MaxRows == 3

Abs(v) == IF v < 0 THEN -v ELSE v
Sign(v) == IF v < 0 THEN -1 ELSE 1

\* n / d (n >= 0, d > 0) rounded to the nearest integer, ties to even
RoundHalfEven(n, d) ==
    LET q == n \div d
        r == n % d
    IN  IF 2 * r < d THEN q
        ELSE IF 2 * r > d THEN q + 1
        ELSE IF q % 2 = 0 THEN q ELSE q + 1

\* the exponent e >= 0 of an integer v >= 2 ^ Precision:
\* 2 ^ (Precision - 1) <= v / 2 ^ e < 2 ^ Precision
RECURSIVE Exponent(_)
Exponent(v) == IF v < 2 ^ Precision THEN 0 ELSE 1 + Exponent(v \div 2)

\* the float nearest to the integer v
Fl(v) ==
    LET e == Exponent(Abs(v))
        m == RoundHalfEven(Abs(v), 2 ^ e)
    IN  Sign(v) * m * 2 ^ e

\* the number s of fraction bits of the float nearest to n / d, for
\* 0 < n / d < 2 ^ Precision: 2 ^ (Precision - 1) <= (n / d) * 2 ^ s
RECURSIVE FractionBits(_, _)
FractionBits(n, d) ==
    IF n >= 2 ^ (Precision - 1) * d THEN 0 ELSE 1 + FractionBits(2 * n, d)

\* int(y / width): the quotient is rounded to a float, then truncated
\* towards zero
IntOfQuotient(y, w) ==
    IF y = 0 THEN 0
    ELSE IF Abs(y) >= 2 ^ Precision * w
    THEN Sign(y) * (LET e == Exponent(Abs(y) \div w)
                    IN  RoundHalfEven(Abs(y), w * 2 ^ e) * 2 ^ e)
    ELSE LET fb == FractionBits(Abs(y), w)
         IN  Sign(y) * (RoundHalfEven(Abs(y) * 2 ^ fb, w) \div 2 ^ fb)

\* the floats the rows of the data hold
Ys == {-3, 0, 1, 5, 2 ^ (Precision + 1), 2 ^ (Precision + 1) + 4}
Rows == {<<c1, c2>> : c1 \in Ys, c2 \in {1, 5}}
Widths == {2, 4}
Cols == 0 .. 3
Datas == UNION {[1 .. n -> Rows] : n \in 1 .. MaxRows}

\* sorted(y, reverse=False)
RECURSIVE sorted(_)
sorted(y) ==
    IF y = <<>> THEN <<>>
    ELSE LET least == CHOOSE k \in DOMAIN y : \A j \in DOMAIN y : y[k] <= y[j]
         IN  <<y[least]>> \o sorted([j \in 1 .. (Len(y) - 1) |->
                                        IF j < least THEN y[j] ELSE y[j + 1]])

\* the inner loop of hist: the first index from i on (rows counted from 1)
\* whose value is not below a, Len(y) + 1 if there is none
RECURSIVE SkipBelow(_, _, _)
SkipBelow(y, a, i) ==
    IF i <= Len(y) /\ y[i] < a THEN SkipBelow(y, a, i + 1) ELSE i

\* the outer loop of hist from the state (a, i, hist_list).  When a pass
\* leaves both a and i as they were, with rows still uncounted, every later
\* pass does the same: the loop appends the same bin for ever and hist does
\* not return.
RECURSIVE HistLoop(_, _, _, _, _)
HistLoop(y, w, a, i, hist_list) ==
    IF i > Len(y) THEN [returned |-> TRUE, hist_list |-> hist_list]
    ELSE LET i2 == SkipBelow(y, a, i)
             bins == Append(hist_list, <<Fl(a - w \div 2), i2 - i>>)
             a2 == Fl(a + w)
         IN  IF a2 = a /\ i2 = i
             THEN [returned |-> FALSE, hist_list |-> bins]
             ELSE HistLoop(y, w, a2, i2, bins)

\* hist(data, width, col)
hist(data, w, col) ==
    IF col - 1 < 0 THEN [returned |-> TRUE, hist_list |-> <<>>]
    ELSE IF col - 1 >= Len(data[1])
    THEN [returned |-> TRUE, hist_list |-> <<>>]
    ELSE LET y == sorted([k \in DOMAIN data |-> data[k][col]])
             a == Fl(IntOfQuotient(y[1], w) * w)
         IN  HistLoop(y, w, a, 1, <<>>)

InitHist ==
    /\ hist_args \in [data : Datas, width : Widths, col : Cols]
    /\ hist_ret = <<>>
    /\ IdleGeom
    /\ IdleAlign
    /\ IdleOpt
    /\ IdleMeas

CallHist ==
    /\ hist_ret = <<>>
    /\ hist_ret' = hist(hist_args.data, hist_args.width, hist_args.col)
    /\ UNCHANGED hist_args
    /\ UNCHANGED geomVars
    /\ UNCHANGED alignVars
    /\ UNCHANGED optVars
    /\ UNCHANGED measVars

NextHist == CallHist

SpecHist == InitHist /\ [][NextHist]_vars

(***************************************************************************)
(* Geometry model: properties                                              *)
(***************************************************************************)
\* C1: after any sequence of Peak.move_x / Peak.move_y / Valley.move_y calls
\* on a solution built from an x-monotonic point list, the point list is
\* still non-decreasing in x.
C1_XMonotonicAfterMoves ==
    (\A i \in 1 .. Len(calls) : calls[i].op \in {"move_x", "move_y"})
        => XMonotonic(points)

\* the amount the last call asked the peak to move by
RequestedAmount ==
    LET pk == (Solution(shape)).peaks[last.idx]
    IN IF last.op = "set_x" THEN last.arg - Peak_center(before, pk).x
       ELSE IF last.op = "set_y" THEN last.arg - Peak_center(before, pk).y
       ELSE last.arg

\* the points of a peak a move in x carries (ll, lh, rh, rl) and a move in
\* y carries (lh, rh)
Carried(pk, op) ==
    IF op \in {"move_x", "set_x"}
    THEN {pk.ll, pk.lh, pk.rh, pk.rl} \ {None}
    ELSE {pk.lh, pk.rh}

Coord(pts, i, op) == IF op \in {"move_x", "set_x"} THEN pts[i].x ELSE pts[i].y

\* the requested amount would carry point i past the peak's next_point
PastNext(pk, i, op) ==
    /\ pk.next_point # None
    /\ Coord(before, i, op) + RequestedAmount > Coord(before, pk.next_point, op)

\* the requested amount would carry point i past the peak's prev_point
PastPrev(pk, i, op) ==
    /\ pk.prev_point # None
    /\ Coord(before, i, op) + RequestedAmount < Coord(before, pk.prev_point, op)

\* C2: a Peak movement that would carry a peak point past prev_point or
\* next_point leaves the point at the neighbour's coordinate and reports
\* clipped = true; a movement that crosses no neighbour reports clipped =
\* false.
C2_PeakMoveClampedAndReported ==
    (calls # <<>> /\ last.kind = "Peak") =>
        LET pk == (Solution(shape)).peaks[last.idx]
            crossing == \E i \in Carried(pk, last.op) :
                            PastNext(pk, i, last.op) \/ PastPrev(pk, i, last.op)
        IN /\ \A i \in Carried(pk, last.op) :
                /\ PastNext(pk, i, last.op)
                      => Coord(points, i, last.op)
                            = Coord(before, pk.next_point, last.op)
                /\ PastPrev(pk, i, last.op)
                      => Coord(points, i, last.op)
                            = Coord(before, pk.prev_point, last.op)
           /\ last.ret = (IF crossing THEN "True" ELSE "False")

\* how far the last call shifted point i in x and in y
ShiftX(i) == points[i].x - before[i].x
ShiftY(i) == points[i].y - before[i].y

\* C17: for every Peak of a 6-point or 8-point solution and every amount,
\* move_x shifts the left-high and the right-high point, and the low points
\* present with them, by the same x-amount, and move_y shifts the left-high
\* and the right-high point by the same y-amount.
C17_HighPairMovesTogether ==
    (calls # <<>> /\ last.kind = "Peak" /\ last.op \in {"move_x", "move_y"}) =>
        LET pk == (Solution(shape)).peaks[last.idx]
        IN IF last.op = "move_x"
           THEN \A i \in Carried(pk, "move_x") : ShiftX(i) = ShiftX(pk.lh)
           ELSE ShiftY(pk.rh) = ShiftY(pk.lh)

\* C26: in every 6-point and 8-point solution each Valley's two points are
\* adjacent in the point sequence and neither is the left-high or
\* right-high point of a Peak; so Valley.move_y and Valley.set_y never
\* change the y of a peak's high point.
C26_ValleyPointsAreLow ==
    (calls # <<>> /\ last.kind = "Valley") =>
        LET v == (Solution(shape)).valleys[last.idx]
        IN /\ v.rl = v.ll + 1
           /\ {v.ll, v.rl} \cap HighIdx(shape) = {}
           /\ \A i \in HighIdx(shape) : ShiftY(i) = 0

\* no neighbouring point blocks the last call: the requested amount carries
\* no point of the peak past prev_point or next_point
Unblocked(pk) ==
    \A i \in Carried(pk, last.op) :
        ~PastNext(pk, i, last.op) /\ ~PastPrev(pk, i, last.op)

\* C28: after Peak.set_y(y) the peak's center has y-coordinate y, after
\* Valley.set_y(y) the valley's center has y-coordinate y, and after
\* Peak.set_x(x), for any x that no neighbouring point blocks, the peak's
\* center has x-coordinate x.
C28_SetPutsCentreWhereAsked ==
    calls # <<>> =>
        /\ (last.kind = "Peak" /\ last.op = "set_y") =>
              Peak_center(points, (Solution(shape)).peaks[last.idx]).y = last.arg
        /\ (last.kind = "Valley" /\ last.op = "set_y") =>
              Valley_center(points, (Solution(shape)).valleys[last.idx]).y
                  = last.arg
        /\ (last.kind = "Peak" /\ last.op = "set_x"
               /\ Unblocked((Solution(shape)).peaks[last.idx])) =>
              Peak_center(points, (Solution(shape)).peaks[last.idx]).x = last.arg

(***************************************************************************)
(* Construction of solutions: properties                                   *)
(***************************************************************************)
\* the one call made
built == calls[1]

\* the call asked for an unsupported shape: a 4-point box, a 10-point
\* double peak, or initialize_solution with recoil type "box" and sol_size 5
UnsupportedShapeRequested ==
    /\ calls # <<>>
    /\ \/ built.op \in {"SolutionBox4", "SolutionPeak10"}
       \/ /\ built.op = "initialize_solution"
          /\ built.arg.optimization_type = "RECOIL"
          /\ built.arg.rec_type = "box"
          /\ built.arg.sol_size = 5

\* C15: constructing SolutionBox4 or SolutionPeak10, or calling
\* initialize_solution with recoil type "box" and sol_size 5, raises
\* NotImplementedError; no solution object is returned and self.solution
\* stays unset.
C15_UnsupportedShapeRaises ==
    UnsupportedShapeRequested =>
        /\ built.raised = "NotImplementedError"
        /\ shape = "none"
        /\ points = <<>>
        /\ solution = <<>>

\* initialize_solution was called for a box of sol_size 5 and raised
C15_Witness ==
    /\ UnsupportedShapeRequested
    /\ built.op = "initialize_solution"
    /\ built.raised # "none"

\* the point count handed to a constructor does not match its variant
WrongPointCount ==
    /\ calls # <<>>
    /\ \/ built.op = "SolutionBox6" /\ Len(before) # 6
       \/ built.op = "SolutionPeak8" /\ Len(before) # 8

\* C16: SolutionBox6 with a point list of a length other than 6, and
\* SolutionPeak8 with a length other than 8, shorter or longer, fail with
\* an error and yield no solution object.
C16_WrongPointCountFails ==
    WrongPointCount => (built.raised # "none" /\ shape = "none" /\ points = <<>>)

\* C18: the solutions the engine builds itself, get_solution6(x1, x2) for
\* 0 <= x1 <= x2 <= 120 and the 8-point solution of initialize_solution,
\* have points non-decreasing in x, the first at x = 0, the last at x = 120.
C18_EngineSolutionsWellFormed ==
    (calls # <<>> /\ built.op \in {"get_solution6", "initialize_solution"}
        /\ built.raised = "none")
    => /\ XMonotonic(points)
       /\ points[1].x = 0
       /\ points[Len(points)].x = 120 * Milli

(***************************************************************************)
(* Spectrum comparator: properties                                         *)
(***************************************************************************)
FirstX(l) == l[1][1]
LastX(l) == l[Len(l)][1]

\* equal length, equal first x, equal last x
SameLengthSameRange(lists) ==
    /\ Len(lists[1]) = Len(lists[2])
    /\ FirstX(lists[1]) = FirstX(lists[2])
    /\ LastX(lists[1]) = LastX(lists[2])

\* every x of the two lists and the channel width are multiples of 0.0001
OnGrain(lists, w) ==
    /\ w % Grain = 0
    /\ \A k \in 1 .. 2 : \A i \in 1 .. Len(lists[k]) : lists[k][i][1] % Grain = 0

\* the two lists are sampled on one grid of step w: consecutive samples are
\* w apart and the two first x-values differ by a multiple of w
OnCommonGrid(lists, w) ==
    /\ OnGrain(lists, w)
    /\ \A k \in 1 .. 2 : \A i \in 1 .. (Len(lists[k]) - 1) :
          lists[k][i + 1][1] - lists[k][i][1] = w
    /\ (FirstX(lists[1]) - FirstX(lists[2])) % w = 0

C4_RealignIsNoOp == ncalls = 2 => espe = prev

\* C4 (amended): when the x-values and the channel width are multiples of
\* 0.0001, applying uniform_espe_lists to the pair it returned inserts
\* nothing.
C4_RealignIsNoOpOnGrain ==
    (ncalls = 2 /\ OnGrain(given, width)) => espe = prev

\* a second call on a pair the first call had padded
C4_Witness ==
    /\ ncalls = 2
    /\ OnGrain(given, width)
    /\ prev # given

\* out is inp with nf samples put before it and the rest after it: inp is
\* kept contiguous, the added samples have y = 0, lie strictly outside inp's
\* x-range and are w apart within the front run and within the back run
ExtendedBy(out, inp, nf, w) ==
    LET nb == Len(out) - Len(inp) - nf
    IN /\ nb >= 0
       /\ SubSeq(out, nf + 1, nf + Len(inp)) = inp
       /\ \A i \in 1 .. nf : out[i][2] = 0 /\ out[i][1] < FirstX(inp)
       /\ \A i \in (nf + Len(inp) + 1) .. Len(out) :
             out[i][2] = 0 /\ out[i][1] > LastX(inp)
       /\ \A i \in 1 .. (nf - 1) : out[i + 1][1] - out[i][1] = w
       /\ \A i \in (nf + Len(inp) + 1) .. (Len(out) - 1) :
             out[i + 1][1] - out[i][1] = w

OnlyExtended(out, inp, w) ==
    \E nf \in 0 .. Len(out) : ExtendedBy(out, inp, nf, w)

\* C5 as claimed: each input appears unchanged and contiguous in its output;
\* every added sample has y = 0, lies strictly before the input's first x or
\* strictly after its last x, and consecutive added samples are
\* channel_width apart.
C5_OnlyExtends ==
    ncalls = 1 => \A k \in 1 .. 2 : OnlyExtended(espe[k], given[k], width)

\* C5 (amended): the same, when the x-values and the channel width are
\* multiples of 0.0001.
C5_OnlyExtendsOnGrain ==
    (ncalls = 1 /\ OnGrain(given, width))
        => \A k \in 1 .. 2 : OnlyExtended(espe[k], given[k], width)

\* a call that put two samples before one list and two after the other
C5_Witness ==
    /\ ncalls = 1
    /\ OnGrain(given, width)
    /\ \E k \in 1 .. 2 :
          /\ FirstX(espe[k]) < FirstX(given[k])
          /\ espe[k][2][1] < FirstX(given[k])
    /\ \E k \in 1 .. 2 :
          /\ LastX(espe[k]) > LastX(given[k])
          /\ espe[k][Len(espe[k]) - 1][1] > LastX(given[k])

\* C7: in pointwise mode, scoring simulated spectrum a against measured b
\* gives the same value as scoring simulated b against measured a.
FractionsEqual(a, b) == a[1] * b[2] = b[1] * a[2]

C7_PointwiseSymmetric ==
    (score # <<>> /\ ~score.by_area) =>
        LET swapped == get_spectra_difference(score.measured, score.optim,
                                              width, FALSE)
        IN /\ score.raised = "none"
           /\ swapped.raised = "none"
           /\ FractionsEqual(score.value, swapped.value)

\* C8: the value _get_spectra_difference returns is never negative, for
\* every pair of spectra and in both scoring modes.
C8_DifferenceNonNegative ==
    score # <<>> => (score.raised = "none" /\ score.value[1] >= 0)

(***************************************************************************)
(* Linear optimizer: properties                                            *)
(***************************************************************************)
\* C6: when the simulator returns a spectrum identical to the measured one,
\* evaluate_solution returns 0, in both scoring modes.
C6_EchoScoresZero ==
    (evaluated # <<>> /\ evaluated.espe # <<>>
        /\ evaluated.espe = evaluated.measured)
        => (evaluated.raised = "none" /\ evaluated.value[1] = 0)

\* start_optimization has returned or raised
Left == pc \in {"returned", "raised"}

\* C9: if the cancellation token is set between simulator invocations of a
\* running optimization (after preparation, between candidate evaluations),
\* no further simulator invocation starts, clean_up is called with the token
\* and then a FINISHED message with a cancelled indicator is emitted, and no
\* child simulation is left running.
C9_CancelStopsSweep ==
    \A i \in 1 .. Len(log) :
        (log[i].ev = "cancel" /\ log[i].info = "sweep") =>
            /\ \A j \in (i + 1) .. Len(log) : log[j].ev # "simulate"
            /\ Left =>
                  /\ children = 0
                  /\ \E j \in (i + 1) .. Len(log) :
                        /\ log[j].ev = "clean_up"
                        /\ log[j].info = "set"
                        /\ \E k \in (j + 1) .. Len(log) :
                              /\ log[k].state = "FINISHED"
                              /\ log[k].info = "cancelled"

\* start_optimization was left by a failure: by an exception, or by the
\* return of its except clause
Failed ==
    \/ pc = "raised"
    \/ pc = "returned" /\ \E i \in 1 .. Len(log) : log[i].ev = "on_error"

ArtifactsUntouched ==
    /\ optimization_recoils = at_call.optimization_recoils
    /\ optimized_fluence = at_call.optimized_fluence

ArtifactsReset == optimization_recoils = <<>> /\ optimized_fluence = "None"

\* C11: after a failed start_optimization, optimization_recoils and
\* optimized_fluence are both as they were before the call or both reset
\* (empty list and None).
C11_ArtifactsAllOrNothing == Failed => (ArtifactsUntouched \/ ArtifactsReset)

\* the configuration errors: no measurement, an optimization type other
\* than RECOIL and FLUENCE, a recoil type other than "box" and "two-peak",
\* a sol_size initialize_solution calls unsupported for the recoil type
ConfigurationError(c) ==
    \/ c.measurement = "None"
    \/ c.optimization_type \notin {"RECOIL", "FLUENCE"}
    \/ /\ c.optimization_type = "RECOIL"
       /\ \/ c.rec_type \notin {"box", "two-peak"}
          \/ c.rec_type = "box" /\ c.sol_size \notin {5, 7}
          \/ c.rec_type = "two-peak" /\ c.sol_size \notin {9, 11}

\* C12: on a configuration error, with or without a starting solution,
\* start_optimization makes no simulator invocation and, when it is left,
\* has reported the failure as an on_error message with state FINISHED.
C12_ConfigurationErrorFailsFast ==
    ConfigurationError(cfg) =>
        /\ \A i \in 1 .. Len(log) : log[i].ev # "simulate"
        /\ Left => \E i \in 1 .. Len(log) :
                      log[i].ev = "on_error" /\ log[i].state = "FINISHED"

\* start_optimization was left before _prepare_optimization's last
\* statement, self.solution = initial_solution
PreparationFailed == Left /\ solution = <<>>

LogIndices(ev) == {i \in 1 .. Len(log) : log[i].ev = ev}

\* the exception preparation failed with: the one that left
\* start_optimization, or the one its report carries
PreparationError ==
    IF pc = "raised" THEN exc
    ELSE IF LogIndices("on_error") = {} THEN "none"
    ELSE log[CHOOSE i \in LogIndices("on_error") : TRUE].info

\* C13: when preparation fails with a missing measurement, an OSError or a
\* SubprocessError, start_optimization returns after exactly one on_error
\* message with state FINISHED carrying the error and exactly one clean_up
\* call; no candidate was evaluated, no results were exported and
\* _prepare_optimization was called once.
C13_PreparationFailureFinishes ==
    (PreparationFailed
        /\ (cfg.measurement = "None"
               \/ PreparationError \in {"OSError", "SubprocessError"}))
    => /\ pc = "returned"
       /\ Cardinality(LogIndices("on_error")) = 1
       /\ \A i \in LogIndices("on_error") :
             /\ log[i].state = "FINISHED"
             /\ log[i].info = (IF cfg.measurement = "None" THEN "ValueError"
                               ELSE PreparationError)
             /\ \E j \in LogIndices("clean_up") : j > i
       /\ Cardinality(LogIndices("clean_up")) = 1
       /\ evaluated = <<>>
       /\ \A i \in LogIndices("simulate") : log[i].info # "candidate"
       /\ LogIndices("optimization_results_to_file") = {}
       /\ LogIndices("on_completed") = {}
       /\ Cardinality(LogIndices("prepare")) = 1

\* the base optimizer's file work raised SubprocessError and
\* start_optimization has returned
C13_Witness ==
    /\ PreparationFailed
    /\ cfg.measurement # "None"
    /\ PreparationError = "SubprocessError"
    /\ pc = "returned"

\* the names of the recoil elements in optimization_recoils
RecoilNames == [i \in 1 .. Len(optimization_recoils) |-> optimization_recoils[i].name]

\* C14: a RECOIL optimization whose preparation succeeded and whose
\* simulator invocations all returned is left in FINISHED:
\* optimization_recoils holds optfirst, optmed, optlast in that order,
\* clean_up and then optimization_results_to_file were called, and after
\* them exactly one on_completed message with state FINISHED and
\* evaluations_done "Unknown" was emitted.
C14_RecoilRunCompletes ==
    (Left /\ cfg.optimization_type = "RECOIL" /\ solution # <<>>
        /\ evaluated # <<>> /\ evaluated.espe # <<>>)
    => /\ pc = "returned"
       /\ RecoilNames = <<"optfirst", "optmed", "optlast">>
       /\ Cardinality(LogIndices("on_completed")) = 1
       /\ \A k \in LogIndices("on_completed") :
             /\ log[k].state = "FINISHED"
             /\ log[k].info = "Unknown"
             /\ \E i \in LogIndices("clean_up") :
                   \E j \in LogIndices("optimization_results_to_file") :
                       i < j /\ j < k

InitialRuns == {i \in LogIndices("simulate") : log[i].info = "initial"}

\* C21: preparation invokes the initial simulation exactly once when
\* skip_simulation is false and never when it is true, and only after the
\* measurement check has passed and the initial solution has been built or
\* accepted.
C21_InitialSimulationOnce ==
    /\ Cardinality(InitialRuns) <= 1
    /\ cfg.skip_simulation => InitialRuns = {}
    /\ (~cfg.skip_simulation /\ solution # <<>>) => Cardinality(InitialRuns) = 1
    /\ InitialRuns # {} =>
          /\ cfg.measurement # "None"
          /\ initial_solution # <<>>
          /\ cfg.starting_solutions # <<>>
                \/ initial_solution = initialize_solution(cfg).solution

\* preparation ran the initial simulation and went on to the sweep
C21_Witness ==
    /\ ~cfg.skip_simulation
    /\ pc = "sweep"
    /\ InitialRuns # {}

\* the candidate has its two high points (y = 1.0) inside the window
\* [w, w + 1] and every other point at the low value (y = 0.0001)
CandidateOfWindow(sol, w) ==
    /\ Len(sol) = 6
    /\ \A i \in {3, 4} :
          /\ sol[i].y = max_y
          /\ w * Milli <= sol[i].x /\ sol[i].x <= (w + 1) * Milli
    /\ \A i \in {1, 2, 5, 6} : sol[i].y = min_y

\* a RECOIL sweep was left after a simulator invocation that returned
SweepLeftAfterReturn ==
    /\ Left
    /\ cfg.optimization_type = "RECOIL"
    /\ solution # <<>>
    /\ evaluated # <<>>
    /\ evaluated.espe # <<>>

\* C22: the sweep evaluates exactly one candidate per window, the windows
\* being [i, i + 1] for i = 0 .. 119, and the candidate of a window has its
\* two high points inside the window and every other point low.
C22_OneCandidatePerWindow ==
    /\ evaluated # <<>> =>
          CandidateOfWindow(evaluated.solution, visited[Len(visited)])
    /\ \A i \in 1 .. Len(visited) : visited[i] = i - 1
    /\ SweepLeftAfterReturn => visited = [i \in 1 .. NWindows |-> i - 1]

\* C23: the sweep's simulator invocations happen in strictly ascending order
\* of window start: after the invocation for window i has returned the
\* candidate for window i + 1 is started, and no window is evaluated twice.
C23_WindowsInAscendingOrder ==
    /\ \A i \in 1 .. (Len(visited) - 1) : visited[i] < visited[i + 1]
    /\ SweepLeftAfterReturn => visited[Len(visited)] = NWindows - 1

\* C24: evaluate_solution returns a score for a candidate that depends on
\* the simulated and the measured spectrum only, not on the candidates
\* evaluated before it, and measured_espe is the same sequence before and
\* after the call.
C24_EvaluationsIndependent ==
    (evaluated # <<>> /\ evaluated.espe # <<>>) =>
        /\ evaluated.raised = "none"
        /\ evaluated.value
              = get_spectra_difference(evaluated.espe, evaluated.measured,
                                       cfg.channel_width,
                                       cfg.optimize_by_area).value
        /\ measured_espe = evaluated.measured

\* the terminal reports made so far
FinishedReports ==
    {i \in 1 .. Len(log) :
        log[i].ev \in {"on_error", "on_completed"} /\ log[i].state = "FINISHED"}

\* the candidate evaluations of the sweep that invoked the simulator
CandidateRuns == {i \in LogIndices("simulate") : log[i].info = "candidate"}

\* C20: within one start_optimization call the lifecycle only moves forward
\* through PREPARING, RUNNING, FINISHED: no candidate is evaluated before
\* preparation has succeeded and stored the initial solution, a FINISHED
\* report without a sweep is made only on a preparation failure, and after
\* the FINISHED report there is no further preparation, simulator
\* invocation, candidate evaluation or report.
C20_LifecycleMovesForward ==
    /\ (evaluated # <<>> \/ CandidateRuns # {}) =>
          /\ solution # <<>>
          /\ solution = initial_solution
          /\ \A i \in CandidateRuns : \E j \in LogIndices("prepare") : j < i
    /\ (FinishedReports # {} /\ evaluated = <<>>) => PreparationFailed
    /\ \A i \in FinishedReports :
          /\ pc = "returned"
          /\ \A j \in (i + 1) .. Len(log) : log[j].ev = "clean_up"

\* the initial simulation failed: the simulator was invoked, FINISHED was
\* reported and start_optimization returned
C20_Witness ==
    /\ FinishedReports # {}
    /\ LogIndices("simulate") # {}
    /\ pc = "returned"

\* the simulator raised during the last candidate evaluation of the sweep
SimulatorRaised ==
    /\ evaluated # <<>>
    /\ cfg.optimization_type = "RECOIL"
    /\ evaluated.espe = <<>>

\* C25: when the simulator raises during a candidate evaluation, the
\* exception leaves evaluate_solution and start_optimization: the candidate
\* is not retried, no further window is evaluated, no results are exported
\* and no on_completed message is emitted.
C25_SimulatorFailurePropagates ==
    SimulatorRaised =>
        /\ evaluated.raised \in SimulatorErrors
        /\ pc = "raised"
        /\ exc = evaluated.raised
        /\ visited[Len(visited)] = window
        /\ \A i \in 1 .. (Len(visited) - 1) : visited[i] # window
        /\ Cardinality(CandidateRuns) = Len(visited)
        /\ LogIndices("optimization_results_to_file") = {}
        /\ LogIndices("on_completed") = {}

\* the simulator raised OSError for the candidate of the first window
C25_Witness ==
    /\ SimulatorRaised
    /\ exc = "OSError"
    /\ pc = "raised"

\* the solution preparation stores: the caller's starting solution, or the
\* one initialize_solution builds
StoredByPreparation ==
    IF cfg.starting_solutions # <<>> THEN cfg.starting_solutions
    ELSE initialize_solution(cfg).solution

\* C27: the search never mutates a solution in place: every sweep candidate
\* is newly built from its window, and self.solution has the coordinates
\* preparation stored, whatever number of candidates were evaluated.
C27_SearchBuildsNewSolutions ==
    /\ solution # <<>> => solution = StoredByPreparation
    /\ evaluated # <<>> =>
          /\ solution = StoredByPreparation
          /\ evaluated.solution
                = get_solution6(visited[Len(visited)] * Milli,
                                visited[Len(visited)] * Milli + Milli)

\* a candidate was evaluated after preparation had stored the 8-point
\* solution
C27_Witness ==
    /\ evaluated # <<>>
    /\ solution = Peak8Coords
    /\ LogIndices("simulate") # {}

\* C10: every call of start_optimization that fails has emitted exactly one
\* terminal FINISHED report when control leaves it.
C10_ExactlyOneFinishedReport ==
    Left => Cardinality(FinishedReports) = 1

(***************************************************************************)
(* Properties of the collection of measurements                            *)
(***************************************************************************)
\* the collection as call i of mcalls left it
HeldAfter(i) == IF i = Len(mcalls) THEN measurements ELSE mcalls[i + 1].held

\* no two measurements held have the same measurement file name
NamesUnique ==
    \A k1 \in DOMAIN measurements, k2 \in DOMAIN measurements :
        measurements[k1] = measurements[k2] => k1 = k2

\* call i returned None and left the collection as it was
Refused(i) == mcalls[i].ret = <<>> /\ HeldAfter(i) = mcalls[i].held

EmptyExactly == is_empty(measurements) <=> HeldNames(measurements) = {}

\* call i is an add of a file whose own name a held measurement has
AddOfHeldName(i) ==
    /\ mcalls[i].op = "add_measurement_file"
    /\ <<mcalls[i].measurement_file.base, 1>> \in HeldNames(mcalls[i].held)

\* call i is an add that reached the search of the collection with the
\* name the file has in the project directory, and a held measurement has
\* that name
AddOfStoredName(i) ==
    /\ mcalls[i].op = "add_measurement_file"
    /\ mcalls[i].file_name # <<>>
    /\ mcalls[i].file_name \in HeldNames(mcalls[i].held)

\* C29 as stated: no two measurements held have the same file name, an add
\* of a file whose name is already held returns None and leaves the
\* collection unchanged, and is_empty is true exactly when nothing is held.
C29_AsStated ==
    /\ NamesUnique
    /\ \A i \in DOMAIN mcalls : AddOfHeldName(i) => Refused(i)
    /\ EmptyExactly

\* C29, amended: no two measurements held have the same file name; an add
\* is refused (None returned, collection unchanged) when the name the file
\* has in the project directory is already held, which for a file given
\* from another directory is the free name it was copied under; is_empty is
\* true exactly when nothing is held.
C29_NamesUniqueAndHeldRefused ==
    /\ NamesUnique
    /\ \A i \in DOMAIN mcalls : AddOfStoredName(i) => Refused(i)
    /\ \A i \in DOMAIN mcalls :
           (AddOfHeldName(i) /\ mcalls[i].measurement_file.directory
                                    \in {"project", ""}) => Refused(i)
    /\ EmptyExactly

\* two measurements are held and an add of a held name has been refused
C29_Witness ==
    /\ Cardinality(DOMAIN measurements) = 2
    /\ \E i \in DOMAIN mcalls : AddOfStoredName(i) /\ Refused(i)
    /\ ~is_empty(measurements)

(***************************************************************************)
(* Properties of hist                                                      *)
(***************************************************************************)
ValidCall ==
    /\ hist_ret # <<>>
    /\ hist_args.col >= 1
    /\ hist_args.col <= Len(hist_args.data[1])
    /\ hist_args.width > 0

RECURSIVE SumCounts(_)
SumCounts(bins) ==
    IF bins = <<>> THEN 0 ELSE bins[1][2] + SumCounts(Tail(bins))

\* C30: for non-empty data, a valid column and width > 0, hist returns, the
\* counts of its bins sum to the number of rows, no count is negative, and
\* successive bin x-values differ by exactly width.
C30_HistLosesNoEvent ==
    ValidCall =>
        /\ hist_ret.returned
        /\ SumCounts(hist_ret.hist_list) = Len(hist_args.data)
        /\ \A k \in DOMAIN hist_ret.hist_list : hist_ret.hist_list[k][2] >= 0
        /\ \A k \in 1 .. (Len(hist_ret.hist_list) - 1) :
               hist_ret.hist_list[k + 1][1] - hist_ret.hist_list[k][1]
                   = hist_args.width

\* the parts of C30, one by one
C30_Returns == ValidCall => hist_ret.returned
C30_CountsAddUp ==
    (ValidCall /\ hist_ret.returned)
        => SumCounts(hist_ret.hist_list) = Len(hist_args.data)
C30_StepsAreWidth ==
    (ValidCall /\ hist_ret.returned)
        => \A k \in 1 .. (Len(hist_ret.hist_list) - 1) :
               hist_ret.hist_list[k + 1][1] - hist_ret.hist_list[k][1]
                   = hist_args.width

=============================================================================
